---- MODULE Spec2Model ----
(***************************************************************************)
(* A model of romanizer.py (sanitizer, uniqueness resolver, conversion     *)
(* pipeline, CLI batch driver) and of RomanizerGUI.py (the preview branch  *)
(* of RenameWorker.run).                                                   *)
(*                                                                         *)
(* A string is a sequence of characters; a character is a one-token string.*)
(* Characters that are awkward to write in ASCII are tokens:               *)
(*   "\t", "\n"  two control characters (0x09, 0x0A)                       *)
(*   "FW?"       U+FF1F FULLWIDTH QUESTION MARK  (NFKC -> "?")             *)
(*   "FW_"       U+FF3F FULLWIDTH LOW LINE       (NFKC -> "_")             *)
(*   "IDSP"      U+3000 IDEOGRAPHIC SPACE        (NFKC -> " ")             *)
(*   "u6771" (東) "u4EAC" (京) "u4E1C" (东) "u5317" (北)  CJK ideographs    *)
(***************************************************************************)
EXTENDS Integers, Sequences, FiniteSets, TLC

VARIABLES
    \* --- safe_filename_stem, called on its own
    stem,               \* the argument `stem`
    replacement,        \* the argument `replacement`
    result,             \* the returned string
    san_pc,             \* "call" before the call, "returned" after it
    \* --- ensure_unique, stepped through its loop
    path,               \* the argument `path`
    exists,             \* the set of paths for which Path.exists() is true
    n,                  \* the loop counter `n`
    ret,                \* the returned path
    eu_pc,              \* "entry", "loop", "returned"
    \* --- a batch run: batch_rename, or the preview branch of RenameWorker.run
    fs,                 \* the regular files on disk, a set of paths
    target_path,        \* the argument `target_path`
    recursive,          \* the argument `recursive`
    dry_run,            \* the argument `dry_run`
    frontend,           \* "cli": main() calls batch_rename; "gui": RenameWorker.run
    lang, style, sep,   \* the conversion options
    files_to_process,   \* the list `files_to_process`
    idx,                \* position of the for loop in files_to_process (from 1)
    rename_map,         \* the preview's dict `rename_map`: src_path -> unique_dst_path
    out,                \* what was printed / emitted, one record per file handled
    resolved,           \* the files a unique destination was looked for
    renames,            \* the calls of Path.rename made, in order
    pc,                 \* "resolve", "loop", "done"
    fs0,                \* history: the files on disk when the batch run started
    plan,               \* history: what the dry run before this real run reported
    \* --- tokenize_by_dict, called on its own
    text,               \* the argument `text`
    custom_dict,        \* the argument `custom_dict`: <<key, value>> pairs in insertion order
    tokens,             \* the returned list
    tok_pc,             \* "call" before the call, "returned" after it
    \* --- convert_filename, stepped through its loop over the tokens
    call,               \* the arguments: filename, lang, style, sep, custom_dict
    conv_tokens,        \* the local `tokens`
    token_i,            \* position of the for loop in tokens (from 1)
    conv_segments,      \* the local `final_segments`
    conv_ret,           \* the returned file name
    conv_pc             \* "entry", "loop", "format", "returned"

sanVars == <<stem, replacement, result, san_pc>>
euVars == <<path, exists, n, ret, eu_pc>>
argVars == <<target_path, recursive, dry_run, frontend, lang, style, sep>>
batchVars == <<fs, argVars, files_to_process, idx, rename_map, out, resolved, renames, pc>>
histVars == <<fs0, plan>>
tokVars == <<text, custom_dict, tokens, tok_pc>>
convVars == <<call, conv_tokens, token_i, conv_segments, conv_ret, conv_pc>>
vars == <<sanVars, euVars, batchVars, histVars, tokVars, convVars>>

(***************************************************************************)
(* Bounds of the model.                                                    *)
(***************************************************************************)
MaxLen == 4             \* longest stem given to safe_filename_stem
MaxRun == 10            \* longest run 1..k of numbered siblings that already exist
MaxTaken == 2           \* how far past the run further siblings may exist
MaxFiles == 3           \* most files on disk when a batch run starts
MaxText == 4            \* longest text given to tokenize_by_dict
MaxDict == 2            \* most entries of a dictionary given to tokenize_by_dict

(***************************************************************************)
(* Strings.                                                                *)
(***************************************************************************)
Lowers == <<"a","b","c","d","e","f","g","h","i","j","k","l","m",
            "n","o","p","q","r","s","t","u","v","w","x","y","z">>
Uppers == <<"A","B","C","D","E","F","G","H","I","J","K","L","M",
            "N","O","P","Q","R","S","T","U","V","W","X","Y","Z">>
Digits == <<"0","1","2","3","4","5","6","7","8","9">>

Range(f) == {f[i] : i \in DOMAIN f}

IndexIn(c, tbl) == CHOOSE i \in DOMAIN tbl : tbl[i] = c

\* str.upper() / str.lower() of one character
upper_char(c) == IF c \in Range(Lowers) THEN Uppers[IndexIn(c, Lowers)] ELSE c
lower_char(c) == IF c \in Range(Uppers) THEN Lowers[IndexIn(c, Uppers)] ELSE c

\* str.upper() / str.lower()
upper(s) == [i \in DOMAIN s |-> upper_char(s[i])]
lower(s) == [i \in DOMAIN s |-> lower_char(s[i])]

\* str.capitalize(): first character upper-cased, the rest lower-cased
capitalize(s) == [i \in DOMAIN s |-> IF i = 1 THEN upper_char(s[i]) ELSE lower_char(s[i])]

\* s[k:] for k >= 0
DropFirst(s, k) == IF k >= Len(s) THEN <<>> ELSE SubSeq(s, k + 1, Len(s))

StartsWith(s, p) == Len(p) <= Len(s) /\ SubSeq(s, 1, Len(p)) = p

RECURSIVE Flatten(_)
\* "".join(parts) for a sequence of strings
Flatten(parts) == IF parts = <<>> THEN <<>> ELSE Head(parts) \o Flatten(Tail(parts))

\* sequences over S of length 0..k
SeqUpTo(S, k) == UNION {[1..m -> S] : m \in 0..k}

(***************************************************************************)
(* safe_filename_stem (romanizer.py 81-126)                                *)
(***************************************************************************)
\* unicodedata.normalize("NFKC", .) on one character: compatibility
\* characters collapse to their standard forms, the rest is unchanged
nfkc_char(c) ==
    CASE c = "FW?" -> "?"
      [] c = "FW_" -> "_"
      [] c = "IDSP" -> " "
      [] OTHER -> c

\* step 1: stem = unicodedata.normalize("NFKC", stem)
normalize_NFKC(s) == [i \in DOMAIN s |-> nfkc_char(s[i])]

\* the character class of illegal_chars_re: [<>:"/\\|?*\x00-\x1f]
illegal_chars == {"<", ">", ":", "\"", "/", "\\", "|", "?", "*", "\t", "\n"}

RECURSIVE illegal_chars_sub(_, _)
\* step 2: illegal_chars_re.sub(replacement, stem)
illegal_chars_sub(repl, s) ==
    IF s = <<>> THEN <<>>
    ELSE (IF Head(s) \in illegal_chars THEN repl ELSE <<Head(s)>>)
         \o illegal_chars_sub(repl, Tail(s))

reserved_names ==
    {<<"C","O","N">>, <<"P","R","N">>, <<"A","U","X">>, <<"N","U","L">>}
    \cup {<<"C","O","M",Digits[d]>> : d \in 2..10}
    \cup {<<"L","P","T",Digits[d]>> : d \in 2..10}

\* step 3: if stem.upper() in reserved_names: stem += "_"
reserved_suffix(s) == IF upper(s) \in reserved_names THEN s \o <<"_">> ELSE s

RECURSIVE lstrip(_, _)
lstrip(s, chars) ==
    IF s # <<>> /\ Head(s) \in chars THEN lstrip(Tail(s), chars) ELSE s

RECURSIVE rstrip(_, _)
rstrip(s, chars) ==
    IF s # <<>> /\ s[Len(s)] \in chars THEN rstrip(SubSeq(s, 1, Len(s) - 1), chars) ELSE s

\* step 4: strip_chars = ' .' + replacement; stem = stem.strip(strip_chars)
strip(s, repl) == rstrip(lstrip(s, {" ", "."} \cup Range(repl)), {" ", "."} \cup Range(repl))

RECURSIVE collapse_runs(_, _)
\* re.sub(f'{replacement_escaped}+', replacement, stem) for a non-empty replacement
collapse_runs(s, repl) ==
    IF s = <<>> THEN <<>>
    ELSE IF StartsWith(s, repl \o repl) THEN collapse_runs(DropFirst(s, Len(repl)), repl)
    ELSE IF StartsWith(s, repl) THEN repl \o collapse_runs(DropFirst(s, Len(repl)), repl)
    ELSE <<Head(s)>> \o collapse_runs(Tail(s), repl)

\* step 5: if replacement: stem = re.sub(...)
collapse(s, repl) == IF repl # <<>> THEN collapse_runs(s, repl) ELSE s

untitled == <<"u","n","t","i","t","l","e","d">>

\* a return without the fallback: return stem
or_untitled_missing(s) == s

\* return stem or "untitled"
or_untitled(s) == IF s = <<>> THEN untitled ELSE s

safe_filename_stem(s, repl) ==
    or_untitled(
      collapse(
        strip(
          reserved_suffix(illegal_chars_sub(repl, normalize_NFKC(s))),
          repl),
        repl))

\* the default value of the parameter `replacement`
default_replacement == <<"_">>

(***************************************************************************)
(* Paths.  A path is [parent |-> directory, name |-> string].              *)
(***************************************************************************)
Path(d, nm) == [parent |-> d, name |-> nm]

\* no dry run came before this run
NoPlan == [made |-> FALSE, lines |-> <<>>]

\* convert_filename is not being called
NoCall == [filename |-> <<>>, lang |-> "", style |-> "", sep |-> <<>>, custom_dict |-> <<>>]

NoPath == Path("", <<>>)

\* name.rfind('.') + 1, 0 when the name holds no dot
rfind_dot(nm) ==
    IF \E i \in DOMAIN nm : nm[i] = "."
    THEN CHOOSE i \in DOMAIN nm : nm[i] = "." /\ \A j \in DOMAIN nm : nm[j] = "." => j <= i
    ELSE 0

\* pathlib's split of a name at its last dot: a dot that starts or ends the
\* name starts no suffix
has_suffix(nm) == 1 < rfind_dot(nm) /\ rfind_dot(nm) < Len(nm)

\* Path.suffix
path_suffix(nm) == IF has_suffix(nm) THEN SubSeq(nm, rfind_dot(nm), Len(nm)) ELSE <<>>

\* Path.stem
path_stem(nm) == IF has_suffix(nm) THEN SubSeq(nm, 1, rfind_dot(nm) - 1) ELSE nm

RECURSIVE str_int(_)
\* str(k) for k >= 0, as the f-string formats {n}
str_int(k) ==
    IF k < 10 THEN <<Digits[k + 1]>>
    ELSE str_int(k \div 10) \o <<Digits[(k % 10) + 1]>>

(***************************************************************************)
(* ensure_unique (romanizer.py 129-151)                                    *)
(***************************************************************************)
\* new_path = parent / f"{stem}-{n}{suffix}"
new_path(p, k) == Path(p.parent, path_stem(p.name) \o <<"-">> \o str_int(k) \o path_suffix(p.name))

RECURSIVE ensure_unique_from(_, _, _)
\* the while loop, entered with n = k
ensure_unique_from(ex, p, k) ==
    IF new_path(p, k) \notin ex THEN new_path(p, k) ELSE ensure_unique_from(ex, p, k + 1)

\* ensure_unique(path), ex being the set of paths that exist
ensure_unique(ex, p) == IF p \notin ex THEN p ELSE ensure_unique_from(ex, p, 1)

(***************************************************************************)
(* The romanization primitives (pypinyin.lazy_pinyin, pykakasi.convert),   *)
(* as convert_filename calls them, on the four ideographs of the model.    *)
(***************************************************************************)
\* lazy_pinyin(c, style=Style.NORMAL) of one ideograph
pinyin ==
    [c \in {"u6771", "u4E1C", "u4EAC", "u5317"} |->
        CASE c = "u6771" -> <<"d","o","n","g">>
          [] c = "u4E1C" -> <<"d","o","n","g">>
          [] c = "u4EAC" -> <<"j","i","n","g">>
          [] c = "u5317" -> <<"b","e","i">>]

\* the words pykakasi knows, with item["hepburn"] of each; u4E1C is no kanji
hepburn_words ==
    { <<<<"u6771", "u4EAC">>, <<"t","o","u","k","y","o","u">>>>,
      <<<<"u6771">>, <<"h","i","g","a","s","h","i">>>>,
      <<<<"u4EAC">>, <<"k","y","o","u">>>>,
      <<<<"u5317">>, <<"k","i","t","a">>>> }

\* the longest prefix of s, at least one character long, that reaches no
\* character of `known` after its first: a run the primitive passes through
\* as one segment
RECURSIVE plain_run(_, _)
plain_run(s, known) ==
    IF Len(s) <= 1 \/ s[2] \in known THEN SubSeq(s, 1, 1)
    ELSE SubSeq(s, 1, 1) \o plain_run(Tail(s), known)

hanzi == DOMAIN pinyin

RECURSIVE lazy_pinyin(_)
\* lazy_pinyin(s, style=Style.NORMAL): one syllable per ideograph, every
\* other run of characters unchanged as one segment
lazy_pinyin(s) ==
    IF s = <<>> THEN <<>>
    ELSE IF Head(s) \in hanzi THEN <<pinyin[Head(s)]>> \o lazy_pinyin(Tail(s))
    ELSE <<plain_run(s, hanzi)>> \o lazy_pinyin(DropFirst(s, Len(plain_run(s, hanzi))))

\* the characters a known word starts with
kanji == {w[1][1] : w \in hepburn_words}

starts_word(s) == \E w \in hepburn_words : StartsWith(s, w[1])

\* the longest known word s starts with
longest_word(s) ==
    CHOOSE w \in hepburn_words :
        /\ StartsWith(s, w[1])
        /\ \A v \in hepburn_words : StartsWith(s, v[1]) => Len(v[1]) <= Len(w[1])

RECURSIVE kks_convert(_)
\* [item["hepburn"] for item in kks.convert(s)]
kks_convert(s) ==
    IF s = <<>> THEN <<>>
    ELSE IF starts_word(s)
         THEN <<longest_word(s)[2]>> \o kks_convert(DropFirst(s, Len(longest_word(s)[1])))
    ELSE <<plain_run(s, kanji)>> \o kks_convert(DropFirst(s, Len(plain_run(s, kanji))))

(***************************************************************************)
(* format_romaji (romanizer.py 53-78)                                      *)
(***************************************************************************)
\* parts = [s for s in segments if s]
non_empty(segments) == SelectSeq(segments, LAMBDA x : x # <<>>)

RECURSIVE join(_, _)
\* sep.join(parts)
join(sep_, parts) ==
    IF parts = <<>> THEN <<>>
    ELSE IF Len(parts) = 1 THEN Head(parts)
    ELSE Head(parts) \o sep_ \o join(sep_, Tail(parts))

format_romaji(segments, style_, sep_) ==
    LET parts == non_empty(segments) IN
    IF parts = <<>> THEN <<>>
    ELSE IF style_ = "camel" THEN Flatten([i \in DOMAIN parts |-> capitalize(parts[i])])
    ELSE IF style_ = "upper" THEN join(sep_, [i \in DOMAIN parts |-> upper(parts[i])])
    ELSE join(sep_, [i \in DOMAIN parts |-> lower(parts[i])])

(***************************************************************************)
(* tokenize_by_dict (romanizer.py 154-184).  A dictionary is the sequence  *)
(* of its <<key, value>> pairs in insertion order, the keys distinct.      *)
(* A regular expression is a sequence of alternatives, each a sequence of  *)
(* atoms; an atom matches one character.                                   *)
(***************************************************************************)
\* custom_dict.keys()
keys(custom_dict_) == [i \in DOMAIN custom_dict_ |-> custom_dict_[i][1]]

\* token in custom_dict
in_dict(token, custom_dict_) == \E i \in DOMAIN custom_dict_ : custom_dict_[i][1] = token

\* custom_dict[token]
dict_get(custom_dict_, token) ==
    custom_dict_[CHOOSE i \in DOMAIN custom_dict_ : custom_dict_[i][1] = token][2]

RECURSIVE by_len_desc(_, _)
\* the keys of length k, then those of length k - 1, ..., each group in its
\* order in ks: sorted() is stable, with reverse=True too
by_len_desc(ks, k) ==
    IF k < 0 THEN <<>>
    ELSE SelectSeq(ks, LAMBDA x : Len(x) = k) \o by_len_desc(ks, k - 1)

\* sorted(custom_dict.keys(), key=len, reverse=True)
sorted_keys(custom_dict_) ==
    LET ks == keys(custom_dict_)
        longest == IF ks = <<>> THEN 0
                   ELSE CHOOSE k \in {Len(ks[i]) : i \in DOMAIN ks} :
                            \A i \in DOMAIN ks : Len(ks[i]) <= k
    IN  by_len_desc(ks, longest)

\* re.escape(key): each character becomes an atom that matches that
\* character and no other
re_escape(key) == [i \in DOMAIN key |-> [literal |-> TRUE, ch |-> key[i]]]

\* an unescaped "." is the atom that matches every character but a newline
atom_matches(atom, c) == IF atom.literal THEN c = atom.ch ELSE c # "\n"

\* a pattern that is the alternatives alone: "|".join(...) with no group
split_pattern_no_group(custom_dict_) ==
    LET sk == sorted_keys(custom_dict_) IN
    [group |-> FALSE, alts |-> [i \in DOMAIN sk |-> re_escape(sk[i])]]

\* f'({pattern})' with pattern = "|".join(re.escape(key) for key in sorted_keys)
split_pattern(custom_dict_) ==
    LET sk == sorted_keys(custom_dict_) IN
    [group |-> TRUE, alts |-> [i \in DOMAIN sk |-> re_escape(sk[i])]]

\* the alternative alt matches s at position pos
alt_matches(alt, s, pos) ==
    /\ pos + Len(alt) - 1 <= Len(s)
    /\ \A i \in DOMAIN alt : atom_matches(alt[i], s[pos + i - 1])

\* the length of the match at pos: that of the first alternative that
\* matches, an empty match being refused when must_advance; -1 for no match
match_at(pat, s, pos, must_advance) ==
    LET ok == {i \in DOMAIN pat.alts :
                  /\ alt_matches(pat.alts[i], s, pos)
                  /\ (must_advance => Len(pat.alts[i]) > 0)}
    IN  IF ok = {} THEN -1
        ELSE Len(pat.alts[CHOOSE i \in ok : \A j \in ok : i <= j])

RECURSIVE re_search(_, _, _, _, _)
\* the leftmost match at or after pos, as <<position, length>>; <<0, -1>>
\* for none.  An empty match is refused at the position start when
\* must_advance: there the previous match ended, and it was empty.
re_search(pat, s, start, pos, must_advance) ==
    IF pos > Len(s) + 1 THEN <<0, -1>>
    ELSE LET k == match_at(pat, s, pos, must_advance /\ pos = start) IN
         IF k >= 0 THEN <<pos, k>>
         ELSE re_search(pat, s, start, pos + 1, must_advance)

RECURSIVE re_split_from(_, _, _, _)
\* re.split from position start on: the text before each match, the text of
\* the match if the pattern has a group, and the text after the last match
re_split_from(pat, s, start, must_advance) ==
    LET m == re_search(pat, s, start, start, must_advance) IN
    IF m[1] = 0 THEN <<SubSeq(s, start, Len(s))>>
    ELSE <<SubSeq(s, start, m[1] - 1)>>
         \o (IF pat.group THEN <<SubSeq(s, m[1], m[1] + m[2] - 1)>> ELSE <<>>)
         \o re_split_from(pat, s, m[1] + m[2], m[2] = 0)

\* re.split(pattern, text)
re_split(pat, s) == re_split_from(pat, s, 1, FALSE)

tokenize_by_dict(text_, custom_dict_) ==
    IF custom_dict_ = <<>> THEN <<text_>>
    ELSE SelectSeq(re_split(split_pattern(custom_dict_), text_), LAMBDA token : token # <<>>)

(***************************************************************************)
(* convert_filename (romanizer.py 189-257), called with a dictionary.      *)
(***************************************************************************)
\* the characters str.split() splits at, of those of the model
whitespace == {" ", "\t", "\n", "IDSP"}

RECURSIVE str_split(_)
\* value.split(): the maximal runs of characters that are not whitespace
str_split(value) ==
    IF value = <<>> THEN <<>>
    ELSE IF Head(value) \in whitespace THEN str_split(Tail(value))
    ELSE <<plain_run(value, whitespace)>>
         \o str_split(DropFirst(value, Len(plain_run(value, whitespace))))

(***************************************************************************)
(* convert_filename (romanizer.py 189-257), called without a dictionary    *)
(* (custom_dict = None), as the batch runs of this model call it.          *)
(***************************************************************************)
\* lines 243-249: final_segments of the whole stem
final_segments(stem_, lang_) ==
    IF lang_ = "cn" THEN lazy_pinyin(stem_)
    ELSE IF lang_ = "jp" THEN kks_convert(stem_)
    ELSE <<>>

convert_filename(filename, lang_, style_, sep_) ==
    safe_filename_stem(
        format_romaji(final_segments(path_stem(filename), lang_), style_, sep_),
        default_replacement)
    \o path_suffix(filename)

(***************************************************************************)
(* safe_filename_stem called on its own: one call per behaviour, on every  *)
(* stem of up to MaxLen characters and on every reserved device name in    *)
(* every letter case, with each of the replacements below.                 *)
(***************************************************************************)
SanAlphabet == {"N", "U", "L", " ", ".", "_", "-", "<", "\t", "FW?"}

Replacements == {<<"_">>, <<"-">>, <<>>}

RECURSIVE CaseVariants(_)
\* every spelling of s that differs from it in letter case only
CaseVariants(s) ==
    IF s = <<>> THEN {<<>>}
    ELSE {<<c>> \o v : c \in {upper_char(Head(s)), lower_char(Head(s))},
                       v \in CaseVariants(Tail(s))}

ReservedInputs == UNION {CaseVariants(r) : r \in reserved_names}

SanInputs == SeqUpTo(SanAlphabet, MaxLen) \cup ReservedInputs

SanIdle ==
    /\ stem = <<>>
    /\ replacement = <<>>
    /\ result = <<>>
    /\ san_pc = "idle"

EuIdle ==
    /\ path = NoPath
    /\ exists = {}
    /\ n = 0
    /\ ret = NoPath
    /\ eu_pc = "idle"

BatchIdle ==
    /\ fs = {}
    /\ target_path = NoPath
    /\ recursive = FALSE
    /\ dry_run = FALSE
    /\ frontend = "idle"
    /\ lang = "jp"
    /\ style = "camel"
    /\ sep = <<>>
    /\ files_to_process = <<>>
    /\ idx = 1
    /\ rename_map = <<>>
    /\ out = <<>>
    /\ resolved = {}
    /\ renames = <<>>
    /\ pc = "idle"

HistIdle ==
    /\ fs0 = {}
    /\ plan = NoPlan

TokIdle ==
    /\ text = <<>>
    /\ custom_dict = <<>>
    /\ tokens = <<>>
    /\ tok_pc = "idle"

ConvIdle ==
    /\ call = NoCall
    /\ conv_tokens = <<>>
    /\ token_i = 1
    /\ conv_segments = <<>>
    /\ conv_ret = <<>>
    /\ conv_pc = "idle"

InitSan ==
    /\ stem \in SanInputs
    /\ replacement \in Replacements
    /\ result = <<>>
    /\ san_pc = "call"
    /\ EuIdle
    /\ BatchIdle
    /\ HistIdle
    /\ TokIdle
    /\ ConvIdle

\* the call safe_filename_stem(stem, replacement)
Sanitize ==
    /\ san_pc = "call"
    /\ result' = safe_filename_stem(stem, replacement)
    /\ san_pc' = "returned"
    /\ UNCHANGED <<stem, replacement>>
    /\ UNCHANGED <<euVars, batchVars, histVars, tokVars, convVars>>

NextSan == Sanitize

SpecSan == InitSan /\ [][NextSan]_vars

(***************************************************************************)
(* ensure_unique stepped through its loop, one test of exists() per step,  *)
(* on a path whose numbered siblings 1..run all exist, with some further   *)
(* siblings after a gap and same-named files in another directory.         *)
(***************************************************************************)
EuNames ==
    { <<"k", ".", "t">>,                \* k.t
      <<"k">>,                          \* k
      <<".", "k">>,                     \* .k    (no suffix)
      <<"k", ".">>,                     \* k.    (no suffix)
      <<"a", ".", "b", ".", "t">> }     \* a.b.t (stem a.b)

InitEU ==
    /\ \E nm \in EuNames, run \in 0..MaxRun, here \in BOOLEAN, elsewhere \in BOOLEAN :
         \E gap \in SUBSET ((run + 2)..(run + 1 + MaxTaken)) :
            /\ path = Path("R", nm)
            /\ exists = (IF here THEN {path} ELSE {})
                        \cup {new_path(path, k) : k \in 1..run}
                        \cup {new_path(path, k) : k \in gap}
                        \cup (IF elsewhere
                              THEN {Path("S", nm), Path("S", new_path(path, 1).name)}
                              ELSE {})
    /\ n = 0
    /\ ret = NoPath
    /\ eu_pc = "entry"
    /\ SanIdle
    /\ BatchIdle
    /\ HistIdle
    /\ TokIdle
    /\ ConvIdle

\* if not path.exists(): return path
EuReturnPath ==
    /\ eu_pc = "entry"
    /\ path \notin exists
    /\ ret' = path
    /\ eu_pc' = "returned"
    /\ UNCHANGED <<path, exists, n>>
    /\ UNCHANGED <<sanVars, batchVars, histVars, tokVars, convVars>>

\* a loop that starts counting at 0: n = 0; while True:
EuEnterLoop_from0 ==
    /\ eu_pc = "entry"
    /\ path \in exists
    /\ n' = 0
    /\ eu_pc' = "loop"
    /\ UNCHANGED <<path, exists, ret>>
    /\ UNCHANGED <<sanVars, batchVars, histVars, tokVars, convVars>>

\* n = 1; while True:
EuEnterLoop ==
    /\ eu_pc = "entry"
    /\ path \in exists
    /\ n' = 1
    /\ eu_pc' = "loop"
    /\ UNCHANGED <<path, exists, ret>>
    /\ UNCHANGED <<sanVars, batchVars, histVars, tokVars, convVars>>

\* if not new_path.exists(): return new_path
EuReturnNew ==
    /\ eu_pc = "loop"
    /\ new_path(path, n) \notin exists
    /\ ret' = new_path(path, n)
    /\ eu_pc' = "returned"
    /\ UNCHANGED <<path, exists, n>>
    /\ UNCHANGED <<sanVars, batchVars, histVars, tokVars, convVars>>

\* n += 1
EuIncrement ==
    /\ eu_pc = "loop"
    /\ new_path(path, n) \in exists
    /\ n' = n + 1
    /\ UNCHANGED <<path, exists, ret, eu_pc>>
    /\ UNCHANGED <<sanVars, batchVars, histVars, tokVars, convVars>>

NextEU == EuReturnPath \/ EuEnterLoop \/ EuReturnNew \/ EuIncrement

\* the loop is the only thing running: a step that can be taken is taken
SpecEU == InitEU /\ [][NextEU]_vars /\ WF_vars(NextEU)

(***************************************************************************)
(* tokenize_by_dict called on its own: one call per behaviour, on every    *)
(* text of up to MaxText characters and every dictionary of up to MaxDict  *)
(* of the keys below (keys that are prefixes of one another, that overlap, *)
(* that hold the regex metacharacters "." and "|", and the empty key).     *)
(***************************************************************************)
TokAlphabet == {"a", ".", "|"}

TokKeys ==
    { <<>>, <<"a">>, <<".">>, <<"a", ".">>, <<".", "a">>, <<"a", "a">>, <<"|">> }

RECURSIVE DictsUpTo(_, _)
\* the dictionaries of at most k entries with keys in K, each with the value v
DictsUpTo(K, k) ==
    IF k = 0 THEN {<<>>}
    ELSE LET shorter == DictsUpTo(K, k - 1) IN
         shorter \cup
         {Append(d, <<key, <<"v">>>>) :
              d \in {x \in shorter : Len(x) = k - 1},
              key \in K}

\* a dict holds a key once
distinct_keys(d) == \A i, j \in DOMAIN d : d[i][1] = d[j][1] => i = j

TokDicts == {d \in DictsUpTo(TokKeys, MaxDict) : distinct_keys(d)}

InitTok ==
    /\ text \in SeqUpTo(TokAlphabet, MaxText)
    /\ custom_dict \in TokDicts
    /\ tokens = <<>>
    /\ tok_pc = "call"
    /\ SanIdle
    /\ EuIdle
    /\ BatchIdle
    /\ HistIdle
    /\ ConvIdle

\* the call tokenize_by_dict(text, custom_dict)
Tokenize ==
    /\ tok_pc = "call"
    /\ tokens' = tokenize_by_dict(text, custom_dict)
    /\ tok_pc' = "returned"
    /\ UNCHANGED <<text, custom_dict>>
    /\ UNCHANGED <<sanVars, euVars, batchVars, histVars, convVars>>

NextTok == Tokenize

SpecTok == InitTok /\ [][NextTok]_vars

(***************************************************************************)
(* convert_filename stepped through its loop over the tokens, one token    *)
(* per step: one call per behaviour, on each of the file names, options    *)
(* and dictionaries below.  The dictionary <<>> stands for None and for {},*)
(* which `if custom_dict:` treats alike.                                   *)
(***************************************************************************)
ConvFilenames ==
    { <<"u6771", "u4EAC", ".", "t">>,           \* 東京.t
      <<"u6771", "-", "u4EAC">>,                \* 東-京      (no suffix)
      <<"a", "u6771", ".", "t">>,               \* a東.t
      <<".", "u6771">>,                         \* .東        (no suffix)
      <<"u6771", " ", "u5317", ".", "t">>,      \* 東 北.t
      <<"-", ".", "t">>,                        \* -.t
      <<"a", ".", "b", ".", "t">>,              \* a.b.t      (stem a.b)
      <<>> }                                    \* the empty name

ConvOptions ==
    { <<"cn", "lower", <<>>>>,
      <<"cn", "upper", <<"_">>>>,
      <<"jp", "camel", <<>>>>,
      <<"en", "lower", <<"-">>>> }              \* a language with no romanizer

ConvDicts ==
    { <<>>,
      \* {"東": "Tou kyo"}
      << <<<<"u6771">>, <<"T", "o", "u", " ", "k", "y", "o">>>> >>,
      \* {"東": "East", "東京": "Tokyo"}: a key that is a prefix of another
      << <<<<"u6771">>, <<"E", "a", "s", "t">>>>,
         <<<<"u6771", "u4EAC">>, <<"T", "o", "k", "y", "o">>>> >>,
      \* {"京": "北"}: a value the romanizers would change
      << <<<<"u4EAC">>, <<"u5317">>>> >>,
      \* {"-": "_"}
      << <<<<"-">>, <<"_">>>> >>,
      \* {"-": " \t", "東": "　to\n"}: values that are or hold whitespace
      << <<<<"-">>, <<" ", "\t">>>>,
         <<<<"u6771">>, <<"IDSP", "t", "o", "\n">>>> >>,
      \* {".": "dot", "a": "X"}: a key that is a regex metacharacter
      << <<<<".">>, <<"d", "o", "t">>>>, <<<<"a">>, <<"X">>>> >>,
      \* {"": "e", "東": "to"}: the empty key
      << <<<<>>, <<"e">>>>, <<<<"u6771">>, <<"t", "o">>>> >> }

InitConv ==
    /\ \E f \in ConvFilenames, o \in ConvOptions, d \in ConvDicts :
          call = [filename |-> f, lang |-> o[1], style |-> o[2], sep |-> o[3],
                  custom_dict |-> d]
    /\ conv_tokens = <<>>
    /\ token_i = 1
    /\ conv_segments = <<>>
    /\ conv_ret = <<>>
    /\ conv_pc = "entry"
    /\ SanIdle
    /\ EuIdle
    /\ BatchIdle
    /\ HistIdle
    /\ TokIdle

\* the token the for loop is at
token == conv_tokens[token_i]

\* the conditions under which each step of convert_filename is taken
\* if custom_dict:
has_dict == conv_pc = "entry" /\ call.custom_dict # <<>>
\* else:
has_no_dict == conv_pc = "entry" /\ call.custom_dict = <<>>
\* for token in tokens:
at_token == conv_pc = "loop" /\ token_i <= Len(conv_tokens)
\* if token in custom_dict:
at_key == at_token /\ in_dict(token, call.custom_dict)
\* else:
at_other == at_token /\ ~in_dict(token, call.custom_dict)
\* the loop, or the else branch, is over
at_format ==
    \/ conv_pc = "format"
    \/ conv_pc = "loop" /\ token_i > Len(conv_tokens)

\* if custom_dict: tokens = tokenize_by_dict(stem, custom_dict)
ConvTokenize ==
    /\ has_dict
    /\ conv_tokens' = tokenize_by_dict(path_stem(call.filename), call.custom_dict)
    /\ conv_pc' = "loop"
    /\ UNCHANGED <<call, token_i, conv_segments, conv_ret>>
    /\ UNCHANGED <<sanVars, euVars, batchVars, histVars, tokVars>>

\* else: final_segments = the romanizer's segments of the whole stem
ConvWholeStem ==
    /\ has_no_dict
    /\ conv_segments' = final_segments(path_stem(call.filename), call.lang)
    /\ conv_pc' = "format"
    /\ UNCHANGED <<call, conv_tokens, token_i, conv_ret>>
    /\ UNCHANGED <<sanVars, euVars, batchVars, histVars, tokVars>>

\* a dictionary hit whose value goes through the romanizer like any token
ConvDictHit_romanized ==
    /\ at_key
    /\ conv_segments' =
          conv_segments \o final_segments(dict_get(call.custom_dict, token), call.lang)
    /\ token_i' = token_i + 1
    /\ UNCHANGED <<call, conv_tokens, conv_ret, conv_pc>>
    /\ UNCHANGED <<sanVars, euVars, batchVars, histVars, tokVars>>

\* if token in custom_dict: final_segments.extend(value.split())
ConvDictHit ==
    /\ at_key
    /\ conv_segments' = conv_segments \o str_split(dict_get(call.custom_dict, token))
    /\ token_i' = token_i + 1
    /\ UNCHANGED <<call, conv_tokens, conv_ret, conv_pc>>
    /\ UNCHANGED <<sanVars, euVars, batchVars, histVars, tokVars>>

\* else: final_segments.extend(the romanizer's segments of the token)
ConvRomanize ==
    /\ at_other
    /\ conv_segments' = conv_segments \o final_segments(token, call.lang)
    /\ token_i' = token_i + 1
    /\ UNCHANGED <<call, conv_tokens, conv_ret, conv_pc>>
    /\ UNCHANGED <<sanVars, euVars, batchVars, histVars, tokVars>>

\* after the loop, or after the else branch: format, sanitize, return
ConvReturn ==
    /\ at_format
    /\ conv_ret' =
          safe_filename_stem(
              format_romaji(conv_segments, call.style, call.sep),
              default_replacement)
          \o path_suffix(call.filename)
    /\ conv_pc' = "returned"
    /\ UNCHANGED <<call, conv_tokens, token_i, conv_segments>>
    /\ UNCHANGED <<sanVars, euVars, batchVars, histVars, tokVars>>

NextConv == ConvTokenize \/ ConvWholeStem \/ ConvDictHit \/ ConvRomanize \/ ConvReturn

SpecConv == InitConv /\ [][NextConv]_vars

(***************************************************************************)
(* Claims about safe_filename_stem (under SpecSan).                        *)
(***************************************************************************)
IsReserved(s) == upper(s) \in reserved_names

\* C1 (as claimed): for every reserved device name in any letter case,
\* safe_filename_stem with the default replacement returns a string that is
\* not that name, compared case-insensitively.
C1_ReservedNameSafety ==
    (san_pc = "returned" /\ replacement = default_replacement /\ IsReserved(stem))
        => upper(result) # upper(stem)

\* C5 (as claimed): sanitizing the result again, with the same replacement,
\* changes nothing.
C5_Idempotence ==
    san_pc = "returned" => safe_filename_stem(result, replacement) = result

\* the characters the default-replacement call removes wherever they stand
\* alone: those it replaces by "_" and those it strips
Removable == illegal_chars \cup {" ", ".", "_"}

\* C6: with the default replacement the result is never empty, holds no
\* illegal character and no control character, and is exactly "untitled"
\* when every character of the (normalized) stem is removed.
C6_Legality ==
    (san_pc = "returned" /\ replacement = default_replacement) =>
        /\ result # <<>>
        /\ \A i \in DOMAIN result : result[i] \notin illegal_chars
        /\ (\A i \in DOMAIN stem : nfkc_char(stem[i]) \in Removable) => result = untitled

\* C6 witness: a stem made of an illegal character, a control character and
\* strippable characters came back as "untitled", and another stem with an
\* illegal character inside came back with "_" in its place.
C6_Witness ==
    /\ san_pc = "returned"
    /\ replacement = default_replacement
    /\ \/ stem = <<"<", "\t", ".", " ">> /\ result = untitled
       \/ stem = <<"N", "<", "FW?", "L">> /\ result = <<"N", "_", "L">>

(***************************************************************************)
(* Claims about ensure_unique (under SpecEU).                              *)
(***************************************************************************)
\* what ensure_unique owes its caller, and what its loop has established
EuPost ==
    /\ eu_pc = "loop" => (n >= 1 /\ path \in exists
                          /\ \A m \in 1..(n - 1) : new_path(path, m) \in exists)
    /\ eu_pc = "returned" =>
        /\ ret \notin exists
        /\ ret = ensure_unique(exists, path)
        /\ path \notin exists => ret = path
        /\ path \in exists =>
             \E k \in 1..(Cardinality(exists) + 1) :
                /\ ret = new_path(path, k)
                /\ \A m \in 1..(k - 1) : new_path(path, m) \in exists

\* C4: ensure_unique terminates, and returns a path that does not exist:
\* `path` itself when it does not exist, else parent/stem-n+suffix for the
\* least n >= 1 that does not exist, n having been tried in the order 1, 2, ...
C4_EnsureUnique == []EuPost /\ <>(eu_pc = "returned")

\* C4 witness: the loop ran past stem-1 and returned the first free sibling.
C4_Witness ==
    /\ eu_pc = "returned"
    /\ path \in exists
    /\ n > 1
    /\ ret = new_path(path, n)
    /\ new_path(path, n + 1) \in exists

(***************************************************************************)
(* The directory tree of a batch run: the target directory R, in it the    *)
(* subdirectory R/S (named u4EAC), and regular files in both.  A path's    *)
(* `parent` names its directory: "R", "R/S", or "./temp" (the directory    *)
(* the preview builds its numbered names in).                              *)
(***************************************************************************)
RootEntry == Path("", <<"R">>)              \* the directory R itself
SubDirEntry == Path("R", <<"u4EAC">>)       \* the directory R/S, an entry of R
Directories == {RootEntry, SubDirEntry}
MissingTarget == Path("", <<"x">>)          \* a path that does not exist

\* the `parent` of the entries of directory d; what is no directory has none
dir_of(d) ==
    CASE d = RootEntry -> "R"
      [] d = SubDirEntry -> "R/S"
      [] OTHER -> "(none)"

\* Path.is_file(), Path.is_dir(), Path.exists() with the files `disk`
is_file(disk, p) == p \in disk
is_dir(p) == p \in Directories
exists_on(disk) == disk \cup Directories

\* d.glob('*'): the entries of d
glob(disk, d) == {p \in disk \cup Directories : p.parent = dir_of(d)}

RECURSIVE rglob(_, _)
\* d.rglob('*'): the entries of d and of every directory below it
rglob(disk, d) ==
    glob(disk, d) \cup UNION {rglob(disk, e) : e \in glob(disk, d) \cap Directories}

\* f.name.startswith('.')
startswith_dot(p) == p.name # <<>> /\ p.name[1] = "."

\* a filter that keeps hidden files: [f for f in glob_method('*') if f.is_file()]
listed_with_hidden(disk, d, rec) ==
    {f \in (IF rec THEN rglob(disk, d) ELSE glob(disk, d)) : is_file(disk, f)}

\* [f for f in glob_method('*') if f.is_file() and not f.name.startswith('.')],
\* as a set
listed(disk, d, rec) ==
    {f \in (IF rec THEN rglob(disk, d) ELSE glob(disk, d)) :
        is_file(disk, f) /\ ~startswith_dot(f)}

\* the orders in which a directory scan may yield the files S
Orderings(S) ==
    {q \in [1..Cardinality(S) -> S] : \A i, j \in DOMAIN q : q[i] = q[j] => i = j}

\* the lists a scan of R may build from the files S: a directory's entries
\* come in any order, R's before those of R/S
ListOrders(S) ==
    {a \o b : a \in Orderings({f \in S : f.parent = "R"}),
              b \in Orderings({f \in S : f.parent = "R/S"})}

\* src_path.with_name(new_filename)
with_name(p, nm) == Path(p.parent, nm)

\* Path("./temp")
temp_parent == "./temp"

\* temp_parent / f"{unique_stem}-{n}{dst_path.suffix}"
temp_path(dst, k) == Path(temp_parent, new_path(dst, k).name)

\* rename_map.values()
values(map) == {map[q] : q \in DOMAIN map}

RECURSIVE preview_unique_from(_, _, _)
\* RomanizerGUI.py 80-83: the while loop, entered with n = k
preview_unique_from(map, dst, k) ==
    IF temp_path(dst, k) \in values(map) THEN preview_unique_from(map, dst, k + 1)
    ELSE temp_path(dst, k)

(***************************************************************************)
(* A batch run.                                                            *)
(***************************************************************************)
CandidateFiles ==
    { Path("R", <<"u6771", ".", "t">>),             \* R/東.t
      Path("R", <<"u4E1C", ".", "t">>),             \* R/东.t
      Path("R", <<"d", "o", "n", "g", ".", "t">>),  \* R/dong.t
      Path("R", <<"u6771", "-", "1", ".", "t">>),   \* R/東-1.t
      Path("R", <<".", "u6771">>),                  \* R/.東   (hidden)
      Path("R/S", <<"u6771", ".", "t">>),           \* R/S/東.t
      Path("R/S", <<"u4E1C", ".", "t">>) }          \* R/S/东.t

\* the (lang, style, sep) a run is started with
Options ==
    { <<"cn", "lower", <<>>>>,
      <<"cn", "upper", <<"_">>>>,
      <<"jp", "camel", <<>>>> }

\* convert_filename(name, lang, style, sep), tabulated once for the names and
\* options of the batch runs
converted ==
    [o \in Options |->
        [nm \in {f.name : f \in CandidateFiles \cup Directories} |->
            convert_filename(nm, o[1], o[2], o[3])]]

InitBatch ==
    /\ fs \in {F \in SUBSET CandidateFiles : Cardinality(F) <= MaxFiles}
    /\ target_path \in {RootEntry, MissingTarget} \cup fs
    /\ recursive \in BOOLEAN
    /\ dry_run \in BOOLEAN
    /\ frontend \in {"cli", "gui"}
    /\ \E o \in Options : lang = o[1] /\ style = o[2] /\ sep = o[3]
    /\ files_to_process = <<>>
    /\ idx = 1
    /\ rename_map = <<>>
    /\ out = <<>>
    /\ resolved = {}
    /\ renames = <<>>
    /\ pc = "resolve"
    /\ fs0 = fs
    /\ plan = NoPlan
    /\ SanIdle
    /\ EuIdle
    /\ TokIdle
    /\ ConvIdle

\* RenameWorker.run runs its own loop when dry_run, and batch_rename otherwise
in_batch_rename == frontend = "cli" \/ ~dry_run
in_preview == frontend = "gui" /\ dry_run

\* the file the loop is at, its converted name and its naive destination
src_path == files_to_process[idx]
new_filename == converted[<<lang, style, sep>>][src_path.name]
dst_path == with_name(src_path, new_filename)
in_loop == pc = "loop" /\ idx <= Len(files_to_process)

\* the naive destination used as it is, whatever is on disk
unique_dst_path_unchecked == dst_path

\* unique_dst_path = ensure_unique(dst_path)
unique_dst_path == ensure_unique(exists_on(fs), dst_path)

Emit(src, dst, status) == out' = Append(out, [src |-> src, dst |-> dst, status |-> status])

\* romanizer.py 291-293: neither a file nor a directory
BatchInvalidPath ==
    /\ pc = "resolve" /\ in_batch_rename
    /\ ~is_file(fs, target_path) /\ ~is_dir(target_path)
    /\ pc' = "done"
    /\ UNCHANGED <<fs, argVars, files_to_process, idx, rename_map, out, resolved, renames>>
    /\ UNCHANGED <<sanVars, euVars, histVars, tokVars, convVars>>

\* romanizer.py 278-279, 295-297: a single file
BatchResolveFile ==
    /\ pc = "resolve" /\ in_batch_rename
    /\ is_file(fs, target_path)
    /\ files_to_process' = <<target_path>>
    /\ pc' = "loop"
    /\ UNCHANGED <<fs, argVars, idx, rename_map, out, resolved, renames>>
    /\ UNCHANGED <<sanVars, euVars, histVars, tokVars, convVars>>

\* romanizer.py 280-290, 295-297: a directory; an empty list returns at once
BatchResolveDir ==
    /\ pc = "resolve" /\ in_batch_rename
    /\ ~is_file(fs, target_path) /\ is_dir(target_path)
    /\ files_to_process' \in ListOrders(listed(fs, target_path, recursive))
    /\ pc' = IF files_to_process' = <<>> THEN "done" ELSE "loop"
    /\ UNCHANGED <<fs, argVars, idx, rename_map, out, resolved, renames>>
    /\ UNCHANGED <<sanVars, euVars, histVars, tokVars, convVars>>

\* a skip without its `continue`: the file is reported and then renamed
BatchSkip_no_continue ==
    /\ in_loop /\ in_batch_rename
    /\ src_path = dst_path
    /\ resolved' = resolved \cup {src_path}
    /\ renames' = Append(renames, [src |-> src_path, dst |-> unique_dst_path, ok |-> TRUE])
    /\ fs' = (fs \ {src_path}) \cup {unique_dst_path}
    /\ Emit(src_path, dst_path, "skip")
    /\ idx' = idx + 1
    /\ UNCHANGED <<argVars, files_to_process, rename_map, pc>>
    /\ UNCHANGED <<sanVars, euVars, histVars, tokVars, convVars>>

\* romanizer.py 307-310: new name equals old name
BatchSkip ==
    /\ in_loop /\ in_batch_rename
    /\ src_path = dst_path
    /\ Emit(src_path, dst_path, "skip")
    /\ idx' = idx + 1
    /\ UNCHANGED <<fs, argVars, files_to_process, rename_map, resolved, renames, pc>>
    /\ UNCHANGED <<sanVars, euVars, histVars, tokVars, convVars>>

\* a dry run that renames all the same
BatchPreview_renames ==
    /\ in_loop /\ in_batch_rename
    /\ src_path # dst_path
    /\ dry_run
    /\ resolved' = resolved \cup {src_path}
    /\ fs' = (fs \ {src_path}) \cup {unique_dst_path}
    /\ Emit(src_path, unique_dst_path, "preview")
    /\ idx' = idx + 1
    /\ UNCHANGED <<argVars, files_to_process, rename_map, renames, pc>>
    /\ UNCHANGED <<sanVars, euVars, histVars, tokVars, convVars>>

\* romanizer.py 313-318: dry run, the rename is only printed
BatchPreview ==
    /\ in_loop /\ in_batch_rename
    /\ src_path # dst_path
    /\ dry_run
    /\ resolved' = resolved \cup {src_path}
    /\ Emit(src_path, unique_dst_path, "preview")
    /\ idx' = idx + 1
    /\ UNCHANGED <<fs, argVars, files_to_process, rename_map, renames, pc>>
    /\ UNCHANGED <<sanVars, euVars, histVars, tokVars, convVars>>

\* romanizer.py 313-323: src_path.rename(unique_dst_path) succeeds
BatchRename ==
    /\ in_loop /\ in_batch_rename
    /\ src_path # dst_path
    /\ ~dry_run
    /\ resolved' = resolved \cup {src_path}
    /\ renames' = Append(renames, [src |-> src_path, dst |-> unique_dst_path, ok |-> TRUE])
    /\ fs' = (fs \ {src_path}) \cup {unique_dst_path}
    /\ Emit(src_path, unique_dst_path, "success")
    /\ idx' = idx + 1
    /\ UNCHANGED <<argVars, files_to_process, rename_map, pc>>
    /\ UNCHANGED <<sanVars, euVars, histVars, tokVars, convVars>>

\* a rename without its try/except: the OSError ends batch_rename
BatchRenameFails_aborts ==
    /\ in_loop /\ in_batch_rename
    /\ src_path # dst_path
    /\ ~dry_run
    /\ resolved' = resolved \cup {src_path}
    /\ renames' = Append(renames, [src |-> src_path, dst |-> unique_dst_path, ok |-> FALSE])
    /\ Emit(src_path, unique_dst_path, "error")
    /\ idx' = idx + 1
    /\ pc' = "done"
    /\ UNCHANGED <<fs, argVars, files_to_process, rename_map>>
    /\ UNCHANGED <<sanVars, euVars, histVars, tokVars, convVars>>

\* romanizer.py 313-325: src_path.rename(unique_dst_path) raises OSError
BatchRenameFails ==
    /\ in_loop /\ in_batch_rename
    /\ src_path # dst_path
    /\ ~dry_run
    /\ resolved' = resolved \cup {src_path}
    /\ renames' = Append(renames, [src |-> src_path, dst |-> unique_dst_path, ok |-> FALSE])
    /\ Emit(src_path, unique_dst_path, "error")
    /\ idx' = idx + 1
    /\ UNCHANGED <<fs, argVars, files_to_process, rename_map, pc>>
    /\ UNCHANGED <<sanVars, euVars, histVars, tokVars, convVars>>

\* the for loop of batch_rename is exhausted: batch_rename returns
BatchReturn ==
    /\ pc = "loop" /\ in_batch_rename
    /\ idx > Len(files_to_process)
    /\ pc' = "done"
    /\ UNCHANGED <<fs, argVars, files_to_process, idx, rename_map, out, resolved, renames>>
    /\ UNCHANGED <<sanVars, euVars, histVars, tokVars, convVars>>

\* RomanizerGUI.py 60-61: a single file
PreviewResolveFile ==
    /\ pc = "resolve" /\ in_preview
    /\ is_file(fs, target_path)
    /\ files_to_process' = <<target_path>>
    /\ pc' = "loop"
    /\ UNCHANGED <<fs, argVars, idx, rename_map, out, resolved, renames>>
    /\ UNCHANGED <<sanVars, euVars, histVars, tokVars, convVars>>

\* RomanizerGUI.py 62-64: anything else is globbed (a missing path yields nothing)
PreviewResolveDir ==
    /\ pc = "resolve" /\ in_preview
    /\ ~is_file(fs, target_path)
    /\ files_to_process' \in ListOrders(listed(fs, target_path, recursive))
    /\ pc' = "loop"
    /\ UNCHANGED <<fs, argVars, idx, rename_map, out, resolved, renames>>
    /\ UNCHANGED <<sanVars, euVars, histVars, tokVars, convVars>>

\* RomanizerGUI.py 73-75
PreviewSkip ==
    /\ in_loop /\ in_preview
    /\ src_path = dst_path
    /\ Emit(src_path, dst_path, "skip")
    /\ idx' = idx + 1
    /\ UNCHANGED <<fs, argVars, files_to_process, rename_map, resolved, renames, pc>>
    /\ UNCHANGED <<sanVars, euVars, histVars, tokVars, convVars>>

\* RomanizerGUI.py 77-84, 89-90: the destination is already a value of rename_map
PreviewConflict ==
    /\ in_loop /\ in_preview
    /\ src_path # dst_path
    /\ dst_path \in values(rename_map)
    /\ resolved' = resolved \cup {src_path}
    /\ rename_map' = [q \in DOMAIN rename_map \cup {src_path} |->
                        IF q = src_path THEN preview_unique_from(rename_map, dst_path, 1)
                        ELSE rename_map[q]]
    /\ Emit(src_path, preview_unique_from(rename_map, dst_path, 1), "conflict")
    /\ idx' = idx + 1
    /\ UNCHANGED <<fs, argVars, files_to_process, renames, pc>>
    /\ UNCHANGED <<sanVars, euVars, histVars, tokVars, convVars>>

\* RomanizerGUI.py 77, 85-90: it is not
PreviewRename ==
    /\ in_loop /\ in_preview
    /\ src_path # dst_path
    /\ dst_path \notin values(rename_map)
    /\ resolved' = resolved \cup {src_path}
    /\ rename_map' = [q \in DOMAIN rename_map \cup {src_path} |->
                        IF q = src_path THEN dst_path ELSE rename_map[q]]
    /\ Emit(src_path, dst_path, "rename")
    /\ idx' = idx + 1
    /\ UNCHANGED <<fs, argVars, files_to_process, renames, pc>>
    /\ UNCHANGED <<sanVars, euVars, histVars, tokVars, convVars>>

\* RomanizerGUI.py 92: the loop is exhausted
PreviewDone ==
    /\ pc = "loop" /\ in_preview
    /\ idx > Len(files_to_process)
    /\ pc' = "done"
    /\ UNCHANGED <<fs, argVars, files_to_process, idx, rename_map, out, resolved, renames>>
    /\ UNCHANGED <<sanVars, euVars, histVars, tokVars, convVars>>

NextBatch ==
    \/ BatchInvalidPath
    \/ BatchResolveFile
    \/ BatchResolveDir
    \/ BatchSkip
    \/ BatchPreview
    \/ BatchRename
    \/ BatchRenameFails
    \/ BatchReturn
    \/ PreviewResolveFile
    \/ PreviewResolveDir
    \/ PreviewSkip
    \/ PreviewConflict
    \/ PreviewRename
    \/ PreviewDone

Spec == InitBatch /\ [][NextBatch]_vars

(***************************************************************************)
(* A dry run followed by the real run: the user previews (the CLI with     *)
(* --dry-run, the GUI with its preview button), then runs the same         *)
(* operation for real (the CLI without the flag, the GUI with its execute  *)
(* button) on the same target with the same options.  The dry run changed  *)
(* nothing on disk; the real run goes through the same ordered file list.  *)
(***************************************************************************)
\* RomanizerGUI.py 205, 283-328: start_operation(dry_run=False) after a
\* preview; romanizer.py 400-411: main() without --dry-run after a dry run
Execute ==
    /\ pc = "done"
    /\ dry_run
    /\ plan' = [made |-> TRUE, lines |-> out]
    /\ dry_run' = FALSE
    /\ idx' = 1
    /\ rename_map' = <<>>
    /\ out' = <<>>
    /\ resolved' = {}
    /\ pc' = "loop"
    /\ UNCHANGED <<fs, fs0, target_path, recursive, frontend, lang, style, sep,
                   files_to_process, renames>>
    /\ UNCHANGED <<sanVars, euVars, tokVars, convVars>>

NextTwoPass ==
    \/ BatchInvalidPath
    \/ BatchResolveFile
    \/ BatchResolveDir
    \/ BatchSkip
    \/ BatchPreview
    \/ BatchRename
    \/ BatchRenameFails
    \/ BatchReturn
    \/ PreviewResolveFile
    \/ PreviewResolveDir
    \/ PreviewSkip
    \/ PreviewConflict
    \/ PreviewRename
    \/ PreviewDone
    \/ Execute

SpecTwoPass == InitBatch /\ [][NextTwoPass]_vars

(***************************************************************************)
(* Claims about a batch run (under Spec).                                  *)
(***************************************************************************)
\* the destination a file was given, as a path in the file's own directory
\* (the preview builds its numbered names under ./temp and shows the name)
Final(e) == Path(e.src.parent, e.dst.name)

\* the records of the files that were not skipped
Planned(o) == {e \in Range(o) : e.status # "skip"}

\* C2 (as claimed): the destinations given to the non-skipped files of one
\* batch run are pairwise distinct, in every mode.
C2_Uniqueness ==
    \A i, j \in DOMAIN out :
        (i < j /\ out[i].status # "skip" /\ out[j].status # "skip")
            => Final(out[i]) # Final(out[j])

\* the paths that are on disk or were given to an earlier file of the batch
Taken == exists_on(fs) \cup {Final(e) : e \in Planned(out)}

\* C3 (as claimed): a file whose converted name differs from its name gets
\* the naive destination, status `rename`, exactly when that path is neither
\* on disk nor claimed earlier in the batch; otherwise stem-n.ext for the
\* first n >= 1 that is neither, status `conflict`.
C3_DestinationRule ==
    [][(in_loop /\ idx' = idx + 1 /\ src_path # dst_path) =>
          LET e == out'[Len(out')]
              expected == ensure_unique(Taken, dst_path)
          IN /\ Final(e) = expected
             /\ in_preview => e.status = (IF expected = dst_path THEN "rename"
                                          ELSE "conflict")]_vars

\* the file of record e converts to its own name
Unchanged(e) == converted[<<lang, style, sep>>][e.src.name] = e.src.name

\* C7: a file whose converted name equals its name is reported as skip, is
\* not renamed (it stays on disk under its name and no rename names it), no
\* unique destination is looked for, and it claims no destination.
C7_SkipCorrectness ==
    \A k \in DOMAIN out :
        Unchanged(out[k]) =>
            /\ out[k].status = "skip"
            /\ out[k].dst = out[k].src
            /\ out[k].src \in fs
            /\ out[k].src \notin resolved
            /\ out[k].src \notin DOMAIN rename_map
            /\ \A r \in DOMAIN renames : renames[r].src # out[k].src

\* C7 witness: a real run ended in which one file was skipped and another,
\* whose naive destination was the skipped file, was renamed.
C7_Witness ==
    /\ pc = "done" /\ ~dry_run
    /\ \E i, j \in DOMAIN out :
          /\ out[i].status = "skip"
          /\ out[j].status = "success"
          /\ with_name(out[j].src, converted[<<lang, style, sep>>][out[j].src.name])
                = out[i].src

\* C8: a dry run (batch_rename or the preview) renames nothing: no step
\* changes the files on disk or calls rename.
C8_DryRunFrame == [][dry_run => (fs' = fs /\ renames' = renames /\ renames = <<>>)]_vars

\* C8 witness: a dry run of batch_rename ended that previewed a numbered
\* destination, and the file is still at its old path.
C8_Witness ==
    /\ pc = "done" /\ dry_run
    /\ \E k \in DOMAIN out :
          /\ out[k].status = "preview"
          /\ out[k].dst # with_name(out[k].src, converted[<<lang, style, sep>>][out[k].src.name])
          /\ out[k].src \in fs
          /\ out[k].dst \notin fs

\* the states a file ends in
Terminal == IF dry_run THEN {"skip", "preview", "rename", "conflict"}
            ELSE {"skip", "success", "error"}

C9_Inv ==
    /\ Len(out) = idx - 1
    /\ idx <= Len(files_to_process) + 1
    /\ \A i, j \in DOMAIN files_to_process :
          files_to_process[i] = files_to_process[j] => i = j
    /\ \A k \in DOMAIN out :
          /\ out[k].src = files_to_process[k]
          /\ out[k].status \in Terminal
          /\ out[k].status = "error" => out[k].src \in fs
    /\ pc = "done" => Len(out) = Len(files_to_process)

\* the rank of a run's position: resolve, then the loop, then done
Rank(p) == CASE p = "resolve" -> 2 [] p = "loop" -> 1 [] OTHER -> 0

\* every step either moves the run on, or handles exactly the next file
C9_Progress ==
    \/ Rank(pc') < Rank(pc)
    \/ pc' = pc /\ pc = "loop" /\ idx <= Len(files_to_process) /\ idx' = idx + 1

\* C9: a failed rename is reported, leaves the file at its old path and does
\* not stop the run: every file of the list is handled exactly once, in
\* order, and ends in one terminal state; a run that is not done can take a
\* step, and every step brings it closer to done, so the run ends.
C9_FailureIsolation ==
    /\ [](C9_Inv /\ (pc = "done" \/ ENABLED NextBatch))
    /\ [][C9_Progress]_vars

\* C9 witness: a run ended in which a rename failed and a later one succeeded.
C9_Witness ==
    /\ pc = "done"
    /\ \E i, j \in DOMAIN out :
          i < j /\ out[i].status = "error" /\ out[j].status = "success"

C11_LosslessTokenization ==
    tok_pc = "returned" =>
        /\ Flatten(tokens) = text
        /\ custom_dict # <<>> => \A i \in DOMAIN tokens : tokens[i] # <<>>

\* a text split at a key that has another key as its prefix and holds a
\* metacharacter, with text left before and after it
C11_Witness ==
    /\ tok_pc = "returned"
    /\ in_dict(<<"a">>, custom_dict)
    /\ in_dict(<<"a", ".">>, custom_dict)
    /\ text = <<"|", "a", ".", "a">>
    /\ tokens = << <<"|">>, <<"a", ".">>, <<"a">> >>

(***************************************************************************)
(* Claims about convert_filename (under SpecConv).                         *)
(***************************************************************************)
\* the original final suffix
ext == path_suffix(call.filename)

\* the segments of a token: value.split() for an exact dictionary key, the
\* romanizer's segments for any other token
segments_of(tok) ==
    IF in_dict(tok, call.custom_dict)
    THEN str_split(dict_get(call.custom_dict, tok))
    ELSE final_segments(tok, call.lang)

\* the in-order concatenation, over the tokens of the stem, of their segments
segments_in_order ==
    LET toks == tokenize_by_dict(path_stem(call.filename), call.custom_dict) IN
    Flatten([i \in DOMAIN toks |-> segments_of(toks[i])])

\* a step of convert_filename can be taken: each step assigns values that
\* are defined whenever its condition holds
can_step == has_dict \/ has_no_dict \/ at_key \/ at_other \/ at_format

\* C12: convert_filename never fails (a call that has not returned can take
\* a step) and returns safe_filename_stem(format_romaji(segments, style,
\* sep)) + ext, where ext is the original final suffix and segments is the
\* in-order concatenation, over the tokens of the stem, of value.split() for
\* a token that is an exact dictionary key (the value is not romanized) and
\* of the romanizer's segments for any other token; when the segments format
\* to nothing the result is "untitled" + ext.
C12_PipelineShape ==
    /\ conv_pc # "returned" => can_step
    /\ conv_pc = "returned" =>
          LET formatted == format_romaji(segments_in_order, call.style, call.sep) IN
          /\ conv_ret = safe_filename_stem(formatted, default_replacement) \o ext
          /\ formatted = <<>> => conv_ret = untitled \o ext

\* 東-京 with {"-": " \t", "東": "　to\n"}, in Japanese, camel case: one
\* key's value is split into the segment "to", the other's into none, and
\* the token 京 is romanized
C12_Witness ==
    /\ conv_pc = "returned"
    /\ call.filename = <<"u6771", "-", "u4EAC">>
    /\ call.lang = "jp"
    /\ Len(call.custom_dict) = 2
    /\ conv_tokens = << <<"u6771">>, <<"-">>, <<"u4EAC">> >>
    /\ conv_segments = << <<"t", "o">>, <<"k", "y", "o", "u">> >>
    /\ conv_ret = <<"T", "o", "K", "y", "o", "u">>

(***************************************************************************)
(* Claims about a dry run followed by the real run (under SpecTwoPass).    *)
(***************************************************************************)
\* C13 (as claimed): from the same files on disk, the same ordered file list
\* and the same options, the destination name the dry run reported for a
\* file (CLI dry run and GUI preview alike) is the name the real run gives
\* that file when it renames it, and a file the real run skips was reported
\* as skipped.
C13_PreviewAgrees ==
    plan.made =>
        \A k \in DOMAIN out :
            /\ k \in DOMAIN plan.lines
            /\ plan.lines[k].src = out[k].src
            /\ out[k].status = "skip" <=> plan.lines[k].status = "skip"
            /\ out[k].status = "success" => Final(plan.lines[k]) = Final(out[k])

(***************************************************************************)
(* Claims about the files on disk during a batch run (under Spec).         *)
(***************************************************************************)
RECURSIVE follow(_, _, _)
\* where the file that was at path p is after the renames rs[i], rs[i+1], ...
follow(p, rs, i) ==
    IF i > Len(rs) THEN p
    ELSE follow(IF rs[i].ok /\ rs[i].src = p THEN rs[i].dst ELSE p, rs, i + 1)

\* the name an original file is present under now
present_as(f) == follow(f, renames, 1)

\* the number of files is that at the start, and each original file is on
\* disk under exactly one name, no two of them under the same
C14_Inv ==
    /\ Cardinality(fs) = Cardinality(fs0)
    /\ \A f \in fs0 : present_as(f) \in fs
    /\ \A f, g \in fs0 : present_as(f) = present_as(g) => f = g

\* a rename is of a file that is on disk, to a path that does not exist
C14_Rename ==
    renames' # renames =>
        LET r == renames'[Len(renames')] IN
        /\ r.src \in fs
        /\ r.dst \notin exists_on(fs)

\* C14: with nothing else changing the directory, every rename batch_rename
\* performs targets a path that does not exist at that moment (also when the
\* naive destination is the current name of a file not yet processed), so
\* after any prefix of the batch the number of files is the same as at the
\* start and each original file is present under exactly one name.
C14_NoFileLost == []C14_Inv /\ [][C14_Rename]_vars

\* 東.t was renamed while dong.t, its naive destination, was still waiting
\* in the list: it became dong-1.t, and both files are on disk
C14_Witness ==
    /\ pc = "done"
    /\ files_to_process = << Path("R", <<"u6771", ".", "t">>),
                             Path("R", <<"d", "o", "n", "g", ".", "t">>) >>
    /\ renames = << [src |-> Path("R", <<"u6771", ".", "t">>),
                     dst |-> Path("R", <<"d", "o", "n", "g", "-", "1", ".", "t">>),
                     ok |-> TRUE] >>
    /\ fs = { Path("R", <<"d", "o", "n", "g", ".", "t">>),
              Path("R", <<"d", "o", "n", "g", "-", "1", ".", "t">>) }
    /\ fs0 = { Path("R", <<"u6771", ".", "t">>),
               Path("R", <<"d", "o", "n", "g", ".", "t">>) }

====
